---------------------------- MODULE Spec2Model ----------------------------
(***************************************************************************)
(* A model of src/data/gdp6h.py: the directory table and order_by_date,    *)
(* the download-if-absent cache (fetch_netcdf), the concurrent batch       *)
(* download, and the parts of preprocess that derive ManufactureVoltage,   *)
(* ids and drogue_status.                                                  *)
(*                                                                         *)
(* Four specifications share the variables:                               *)
(*   Spec        download / fetch_netcdf / the thread pool                 *)
(*   SpecOrder   order_by_date as a function of the table and its input    *)
(*   SpecDrogue  drogue_presence as a function of (lost_time, time)        *)
(*   SpecPre     preprocess on a raw file                                  *)
(***************************************************************************)
EXTENDS Integers, Sequences, FiniteSets, TLC

VARIABLES
    df,        \* the directory table, sorted by Deployment_date (l.76-77)
    ob,        \* order_by_date: the last call's argument and result
    dp,        \* drogue_presence: the last call's arguments and result
    raw,       \* preprocess: the raw file that xr.load_dataset reads
    ds,        \* preprocess: the dataset it returns
    cache,     \* the local files: identifier -> content of drifter_<id>.nc
    calls,     \* number of download calls started
    args,      \* the arguments of the running or last download call
    warned,    \* whether that call emitted the warning of l.129
    ids,       \* drifter_ids after l.124-134: the identifiers to fetch
    tasks,     \* one future per entry of ids (exector.map, l.149)
    mainpc,    \* where the thread that called download stands
    cur,       \* the index of the future whose exception the caller got
    cancelIdx, \* the index of the future the caller cancels next
    completed, \* the futures of this call in the order they finished
    outcome,   \* how the last download call ended, and its return value
    prev,      \* the fetch list of the call before, if its arguments were the same
    fin        \* per file: how earlier fetch_netcdf calls on it ended

orderVars == <<ob>>
drogueVars == <<dp>>
preVars == <<raw, ds>>
mainVars == <<cache, calls, args, warned, ids, tasks, mainpc, cur, cancelIdx, completed,
             outcome, prev, fin>>
vars == <<df, orderVars, drogueVars, preVars, mainVars>>

----------------------------------------------------------------------------
(* Bounds of the model *)

NumIds == 2        \* identifiers listed on the server: 1..NumIds
MaxRows == 3       \* rows of the directory table
MaxDate == 1       \* deployment dates 0..MaxDate
MaxIdx == 3        \* length of the list given to order_by_date
MaxObs == 3        \* observations of a trajectory
MaxTime == 3       \* observation times 0..MaxTime
MaxDigits == 3     \* characters before the unit suffix of an attribute
MaxIds == 2        \* length of the drifter_ids list given to download
MaxCalls == 2      \* download calls in one run
NBlocks == 2       \* blocks of a remote file

(* Encodings *)
NaT == -1          \* a date that pd.to_datetime could not parse (l.49)
NoneN == -1        \* n_random_id = None (l.115)

----------------------------------------------------------------------------
(* Helpers *)

SeqsUpTo(S, n) == UNION {[1..k -> S] : k \in 0..n}

Range(s) == {s[i] : i \in 1..Len(s)}

IsAscending(s) == \A i \in 1..(Len(s) - 1) : s[i] <= s[i + 1]

\* sorted(list): the ascending arrangement of the entries of s
RECURSIVE SortedSeq(_)
SortedSeq(s) ==
    IF s = <<>> THEN <<>>
    ELSE LET m == CHOOSE i \in 1..Len(s) : \A j \in 1..Len(s) : s[i] <= s[j]
             rest == [k \in 1..(Len(s) - 1) |-> IF k < m THEN s[k] ELSE s[k + 1]]
         IN <<s[m]>> \o SortedSeq(rest)

----------------------------------------------------------------------------
(* The directory table (l.76-77) and order_by_date (l.80-89) *)

\* identifiers that may appear in the directory files: those of the server
\* and one that has no file on the server
TableIds == 1..(NumIds + 1)

Rows == [ID : TableIds, Deployment_date : (0..MaxDate) \cup {NaT}]

\* sort_values(["Deployment_date"]): ascending, NaT last
DateLE(a, b) == b = NaT \/ (a /= NaT /\ a <= b)

SortedByDate(t) == \A i \in 1..(Len(t) - 1) : DateLE(t[i].Deployment_date, t[i + 1].Deployment_date)

\* every table that pd.concat followed by sort_values can produce
Tables == {t \in SeqsUpTo(Rows, MaxRows) : SortedByDate(t)}

\* df.ID
df_ID(t) == [i \in 1..Len(t) |-> t[i].ID]

\* np.where(mask)[0]: the positions of t, ascending, at which mask holds
RECURSIVE np_where(_, _)
np_where(mask, from) ==
    IF from > Len(mask) THEN <<>>
    ELSE IF mask[from] THEN <<from>> \o np_where(mask, from + 1)
    ELSE np_where(mask, from + 1)

order_by_date_unsorted(t, idx) == SelectSeq(idx, LAMBDA x : x \in Range(df_ID(t)))

\* df.ID[np.where(np.in1d(df.ID, idx))[0]].values
order_by_date(t, idx) ==
    LET in1d == [i \in 1..Len(t) |-> df_ID(t)[i] \in Range(idx)]
        pos == np_where(in1d, 1)
    IN [k \in 1..Len(pos) |-> df_ID(t)[pos[k]]]

----------------------------------------------------------------------------
(* drogue_presence (l.210-220) *)

drogue_presence_le(lost_time, time) ==
    IF lost_time = NaT \/ lost_time >= time[Len(time)]
    THEN [i \in 1..Len(time) |-> TRUE]
    ELSE [i \in 1..Len(time) |-> time[i] <= lost_time]

drogue_presence(lost_time, time) ==
    IF lost_time = NaT \/ lost_time >= time[Len(time)]
    THEN [i \in 1..Len(time) |-> TRUE]
    ELSE [i \in 1..Len(time) |-> time[i] < lost_time]

----------------------------------------------------------------------------
(* str_to_float (l.183-195) and the attribute conversions of preprocess *)

Digits == {"5", "6"}

DigitVal(c) == IF c = "5" THEN 5 ELSE 6

\* str.strip() of the whitespace float() ignores
RECURSIVE LStrip(_)
LStrip(s) == IF s /= <<>> /\ Head(s) = " " THEN LStrip(Tail(s)) ELSE s

RECURSIVE RStrip(_)
RStrip(s) == IF s /= <<>> /\ s[Len(s)] = " " THEN RStrip(SubSeq(s, 1, Len(s) - 1)) ELSE s

RECURSIVE DecVal(_)
DecVal(s) == IF s = <<>> THEN 0 ELSE 10 * DecVal(SubSeq(s, 1, Len(s) - 1)) + DigitVal(s[Len(s)])

\* float(value) on the strings of the model: a decimal integer or "nan",
\* with surrounding blanks; anything else raises ValueError
PyFloat(s) ==
    LET core == RStrip(LStrip(s))
    IN IF core = <<"n", "a", "n">> THEN [kind |-> "nan", val |-> 0]
       ELSE IF core /= <<>> /\ \A i \in 1..Len(core) : core[i] \in Digits
            THEN [kind |-> "num", val |-> DecVal(core)]
       ELSE [kind |-> "ValueError", val |-> 0]

str_to_float(value, default) ==
    LET f == PyFloat(value)
    IN IF f.kind = "num" THEN f.val ELSE default

\* np.int16(x): two's complement, 16 bits
Int16(x) == ((x + 32768) % 65536) - 32768

\* value[:-k]
DropLast(s, k) == SubSeq(s, 1, IF Len(s) > k THEN Len(s) - k ELSE 0)

VoltageSuffixLen == 6

\* l.273-276
ManufactureVoltage(s) == Int16(str_to_float(DropLast(s, VoltageSuffixLen), -1))

\* l.314: np.repeat(ds.ID.values, ds.dims["obs"])
np_repeat(x, n) == [i \in 1..n |-> x]

\* the raw file's ManufactureVoltage attribute: a number (or blanks, or nan)
\* followed by a unit
Suffixes == {<<>>, <<" ", "V">>, <<"V">>, <<" ", "V", "o", "l", "t", "s">>}

Prefixes == SeqsUpTo(Digits \cup {" "}, MaxDigits) \cup {<<"n", "a", "n">>}

VoltageStrings == {p \o s : p \in Prefixes, s \in Suffixes}

\* observation times of a raw file: non-empty, ascending
TimeSeqs == {t \in SeqsUpTo(0..MaxTime, MaxObs) : t /= <<>> /\ IsAscending(t)}

LostTimes == (0..MaxTime) \cup {NaT}

\* the observation times of one trajectory are distinct instants
RawTimeSeqs == {t \in TimeSeqs : \A i \in 1..(Len(t) - 1) : t[i] < t[i + 1]}

RawFiles == [ID : 1..NumIds, ManufactureVoltage : VoltageStrings,
             drogue_lost_date : LostTimes, time : RawTimeSeqs]

\* l.233-466, the fields the properties below read
preprocess(r) ==
    [ManufactureVoltage |-> ManufactureVoltage(r.ManufactureVoltage),
     ids |-> np_repeat(r.ID, Len(r.time)),
     drogue_status |-> drogue_presence(r.drogue_lost_date, r.time)]

----------------------------------------------------------------------------
(* The three function-level specifications *)

IdleOb == [called |-> FALSE, idx |-> <<>>, out |-> <<>>]
IdleDp == [called |-> FALSE, lost_time |-> NaT, time |-> <<>>, out |-> <<>>]
IdleRaw == [ID |-> 1, ManufactureVoltage |-> <<>>, drogue_lost_date |-> NaT, time |-> <<0>>]
IdleDs == [loaded |-> FALSE, ManufactureVoltage |-> 0, ids |-> <<>>, drogue_status |-> <<>>]

\* a call of order_by_date with a list of identifiers
OrderByDate ==
    /\ ~ob.called
    /\ \E idx \in SeqsUpTo(TableIds, MaxIdx) :
         ob' = [called |-> TRUE, idx |-> idx, out |-> order_by_date(df, idx)]
    /\ UNCHANGED <<df, drogueVars, preVars, mainVars>>

\* a call of order_by_date with every identifier of the table
OrderByDateAll ==
    /\ ~ob.called
    /\ ob' = [called |-> TRUE, idx |-> df_ID(df), out |-> order_by_date(df, df_ID(df))]
    /\ UNCHANGED <<df, drogueVars, preVars, mainVars>>

DroguePresence ==
    /\ ~dp.called
    /\ \E l \in LostTimes, t \in TimeSeqs :
         dp' = [called |-> TRUE, lost_time |-> l, time |-> t, out |-> drogue_presence(l, t)]
    /\ UNCHANGED <<df, orderVars, preVars, mainVars>>

Preprocess ==
    /\ ~ds.loaded
    /\ ds' = [loaded |-> TRUE] @@ preprocess(raw)
    /\ UNCHANGED <<df, raw, orderVars, drogueVars, mainVars>>


----------------------------------------------------------------------------
(* The server listing (l.93-104) and the local files *)

\* dict_id: the identifiers found in the server's directory listings
CatalogIds == 1..NumIds

\* all_drifter_ids (l.94-103)
all_drifter_ids == [i \in 1..NumIds |-> i]

\* a remote file, block by block
Complete == [i \in 1..NBlocks |-> "data"]

NoFile == [present |-> FALSE, data |-> <<>>]

\* isfile(file)
isfile(i) == cache[i].present

\* a file handle at block offset off writes one block: a file shorter than
\* the offset is extended with a hole
WriteAt(data, off) ==
    LET n == IF Len(data) > off + 1 THEN Len(data) ELSE off + 1
    IN [k \in 1..n |-> IF k = off + 1 THEN "data"
                       ELSE IF k <= Len(data) THEN data[k] ELSE "hole"]

----------------------------------------------------------------------------
(* download (l.115-156): the part that runs before the futures *)

\* np.random.RandomState(42).permutation(k) for k = 0..5, 1-based
Perm42(k) ==
    CASE k = 0 -> <<>>
      [] k = 1 -> <<1>>
      [] k = 2 -> <<2, 1>>
      [] k = 3 -> <<1, 2, 3>>
      [] k = 4 -> <<2, 4, 1, 3>>
      [] k = 5 -> <<2, 5, 3, 1, 4>>

\* rng.choice(drifter_ids, n, replace=False) with the generator seeded 42
rng_choice(cand, n) == [k \in 1..n |-> cand[Perm42(Len(cand))[k]]]

\* the lists of identifiers download is given: lists of listed identifiers
\* (repetitions included) and lists that name one the server does not have
DrifterIdLists ==
    SeqsUpTo(CatalogIds, MaxIds) \cup {<<NumIds + 1>>, <<1, NumIds + 1>>}

DownloadArgs ==
    [given : {TRUE}, drifter_ids : DrifterIdLists,
     n_random_id : {NoneN} \cup (0..(MaxIds + 1))]
    \cup [given : {FALSE}, drifter_ids : {<<>>}, n_random_id : {NoneN} \cup (0..(NumIds + 1))]

\* l.124-125
Candidates(a) == IF a.given THEN a.drifter_ids ELSE all_drifter_ids

\* l.127: if n_random_id
Truthy(n) == n /= NoneN /\ n /= 0

\* l.128
Oversize(a) == Truthy(a.n_random_id) /\ a.n_random_id > Len(Candidates(a))

\* l.124-134: the identifiers to fetch
FetchList(a) ==
    IF Truthy(a.n_random_id) /\ ~Oversize(a)
    THEN SortedSeq(rng_choice(Candidates(a), a.n_random_id))
    ELSE Candidates(a)

NewTask(i) == [id |-> i, st |-> "pending", off |-> 0, net |-> FALSE, opened |-> FALSE,
               priorAny |-> FALSE, priorOK |-> FALSE, hitPartial |-> FALSE, overwrote |-> FALSE]

NoOutcome == [kind |-> "none", value |-> <<>>]

NoArgs == [given |-> FALSE, drifter_ids |-> <<>>, n_random_id |-> NoneN]

\* l.115-149: sampling, the url and path lists, and the submission of one
\* future per identifier; dict_id[i] raises KeyError for an identifier the
\* listings did not show
Download ==
    /\ mainpc = "idle"
    /\ calls < MaxCalls
    /\ \E a \in DownloadArgs :
         LET fl == FetchList(a)
         IN /\ args' = a
            /\ warned' = Oversize(a)
            /\ ids' = fl
            /\ prev' = IF calls > 0 /\ a = args THEN [same |-> TRUE, ids |-> ids]
                        ELSE [same |-> FALSE, ids |-> <<>>]
            /\ IF \E k \in 1..Len(fl) : fl[k] \notin CatalogIds
               THEN /\ tasks' = <<>>
                    /\ mainpc' = "idle"
                    /\ outcome' = [kind |-> "KeyError", value |-> <<>>]
               ELSE /\ tasks' = [k \in 1..Len(fl) |-> NewTask(fl[k])]
                    /\ mainpc' = "collect"
                    /\ outcome' = [kind |-> "running", value |-> <<>>]
    /\ calls' = calls + 1
    /\ cur' = 0
    /\ cancelIdx' = 0
    /\ completed' = <<>>
    /\ UNCHANGED <<df, cache, fin, orderVars, drogueVars, preVars>>

----------------------------------------------------------------------------
(* The worker threads: fetch_netcdf (l.107-112) on one future *)

\* ThreadPoolExecutor(): min(32, os.cpu_count() + 4) workers, at least 5
MaxWorkers == 5

Busy(t) == tasks[t].st \in {"running", "fetching", "writing"}

Finished(t) == tasks[t].st \in {"done", "failed", "cancelled"}

Finish(t, ok) ==
    /\ completed' = Append(completed, t)
    /\ fin' = [fin EXCEPT ![tasks[t].id] = [any |-> TRUE, ok |-> @.ok \/ ok]]

\* a worker takes the oldest queued future and calls fetch_netcdf
Start(t) ==
    /\ tasks[t].st = "pending"
    /\ \A u \in 1..(t - 1) : tasks[u].st /= "pending"
    /\ Cardinality({u \in 1..Len(tasks) : Busy(u)}) < MaxWorkers
    /\ tasks' = [tasks EXCEPT ![t].st = "running",
                              ![t].priorAny = fin[tasks[t].id].any,
                              ![t].priorOK = fin[tasks[t].id].ok]
    /\ UNCHANGED <<df, cache, calls, args, warned, ids, mainpc, cur, cancelIdx, completed,
                   outcome, prev, fin, orderVars, drogueVars, preVars>>

\* l.111, the file is there: fetch_netcdf returns
SkipPresent(t) ==
    /\ tasks[t].st = "running"
    /\ isfile(tasks[t].id)
    /\ tasks' = [tasks EXCEPT ![t].st = "done",
                              ![t].hitPartial = cache[tasks[t].id].data /= Complete]
    /\ Finish(t, TRUE)
    /\ UNCHANGED <<df, cache, calls, args, warned, ids, mainpc, cur, cancelIdx,
                   outcome, prev, orderVars, drogueVars, preVars>>

\* l.111, the file is not there: fetch_netcdf goes on to urlretrieve
CheckAbsent_always(t) ==
    /\ tasks[t].st = "running"
    /\ tasks' = [tasks EXCEPT ![t].st = "fetching"]
    /\ UNCHANGED <<df, cache, calls, args, warned, ids, mainpc, cur, cancelIdx, completed,
                   outcome, prev, fin, orderVars, drogueVars, preVars>>

CheckAbsent(t) ==
    /\ tasks[t].st = "running"
    /\ ~isfile(tasks[t].id)
    /\ tasks' = [tasks EXCEPT ![t].st = "fetching"]
    /\ UNCHANGED <<df, cache, calls, args, warned, ids, mainpc, cur, cancelIdx, completed,
                   outcome, prev, fin, orderVars, drogueVars, preVars>>

\* l.112, urlretrieve: the request fails before the local file is opened
UrlopenFail(t) ==
    /\ tasks[t].st = "fetching"
    /\ tasks' = [tasks EXCEPT ![t].st = "failed", ![t].net = TRUE]
    /\ Finish(t, FALSE)
    /\ UNCHANGED <<df, cache, calls, args, warned, ids, mainpc, cur, cancelIdx,
                   outcome, prev, orderVars, drogueVars, preVars>>

\* l.112, urlretrieve: the request is answered and open(file, "wb") creates
\* the file, or empties the one that is there
OpenFile(t) ==
    /\ tasks[t].st = "fetching"
    /\ tasks' = [tasks EXCEPT ![t].st = "writing", ![t].off = 0, ![t].net = TRUE,
                              ![t].opened = TRUE,
                              ![t].overwrote = cache[tasks[t].id].present]
    /\ cache' = [cache EXCEPT ![tasks[t].id] = [present |-> TRUE, data |-> <<>>]]
    /\ UNCHANGED <<df, calls, args, warned, ids, mainpc, cur, cancelIdx, completed,
                   outcome, prev, fin, orderVars, drogueVars, preVars>>

\* l.112, urlretrieve: one block is read and written; after the last block
\* urlretrieve and fetch_netcdf return
WriteBlock(t) ==
    /\ tasks[t].st = "writing"
    /\ cache' = [cache EXCEPT ![tasks[t].id].data = WriteAt(@, tasks[t].off)]
    /\ IF tasks[t].off + 1 = NBlocks
       THEN /\ tasks' = [tasks EXCEPT ![t].st = "done", ![t].off = NBlocks]
            /\ Finish(t, TRUE)
       ELSE /\ tasks' = [tasks EXCEPT ![t].off = @ + 1]
            /\ UNCHANGED <<completed, fin>>
    /\ UNCHANGED <<df, calls, args, warned, ids, mainpc, cur, cancelIdx,
                   outcome, prev, orderVars, drogueVars, preVars>>

\* l.112, urlretrieve: the connection breaks, or ends short of the length
\* announced (ContentTooShortError); what was written stays in the file
WriteFail(t) ==
    /\ tasks[t].st = "writing"
    /\ tasks' = [tasks EXCEPT ![t].st = "failed"]
    /\ Finish(t, FALSE)
    /\ UNCHANGED <<df, cache, calls, args, warned, ids, mainpc, cur, cancelIdx,
                   outcome, prev, orderVars, drogueVars, preVars>>

----------------------------------------------------------------------------
(* download: the caller waits for the futures (l.147-156) *)

\* list(exector.map(...)) blocks on the result of each future in turn
result_ready_early(t) == tasks[t].st /= "pending"

result_ready(t) == Finished(t)

\* the futures before this one returned and this one raised: the exception
\* leaves the iterator of exector.map, which cancels the futures it has not
\* yielded, last first
CollectFail ==
    /\ mainpc = "collect"
    /\ \E k \in 1..Len(tasks) :
         /\ \A u \in 1..k : result_ready(u)
         /\ \A u \in 1..(k - 1) : tasks[u].st /= "failed"
         /\ tasks[k].st = "failed"
         /\ cur' = k
    /\ mainpc' = "cancel"
    /\ cancelIdx' = Len(tasks)
    /\ UNCHANGED <<df, cache, calls, args, warned, ids, tasks, completed,
                   outcome, prev, fin, orderVars, drogueVars, preVars>>

\* future.cancel(): a future no worker has taken is cancelled, any other
\* is left alone
CancelNext ==
    /\ mainpc = "cancel"
    /\ cancelIdx > cur
    /\ IF tasks[cancelIdx].st = "pending"
       THEN /\ tasks' = [tasks EXCEPT ![cancelIdx].st = "cancelled"]
            /\ completed' = Append(completed, cancelIdx)
       ELSE UNCHANGED <<tasks, completed>>
    /\ cancelIdx' = cancelIdx - 1
    /\ UNCHANGED <<df, cache, calls, args, warned, ids, mainpc, cur,
                   outcome, prev, fin, orderVars, drogueVars, preVars>>

CancelDone ==
    /\ mainpc = "cancel"
    /\ cancelIdx <= cur
    /\ mainpc' = "shutdown"
    /\ UNCHANGED <<df, cache, calls, args, warned, ids, tasks, cur, cancelIdx, completed,
                   outcome, prev, fin, orderVars, drogueVars, preVars>>

\* the with block ends on the exception: shutdown(wait=True) joins the
\* workers, then download raises what the future raised
Raise ==
    /\ mainpc = "shutdown"
    /\ \A t \in 1..Len(tasks) : Finished(t)
    /\ mainpc' = "idle"
    /\ outcome' = [kind |-> "URLError", value |-> <<>>]
    /\ UNCHANGED <<df, cache, calls, args, warned, ids, tasks, cur, cancelIdx, completed,
                   prev, fin, orderVars, drogueVars, preVars>>

\* every result was collected: the with block ends and download returns
Return ==
    /\ mainpc = "collect"
    /\ \A t \in 1..Len(tasks) : result_ready(t) /\ tasks[t].st /= "failed"
    /\ mainpc' = "idle"
    /\ outcome' = [kind |-> "returned", value |-> order_by_date(df, ids)]
    /\ UNCHANGED <<df, cache, calls, args, warned, ids, tasks, cur, cancelIdx, completed,
                   prev, fin, orderVars, drogueVars, preVars>>

----------------------------------------------------------------------------
(* The specifications *)

MainIdle ==
    /\ cache = [i \in CatalogIds |-> NoFile]
    /\ calls = 0
    /\ args = NoArgs
    /\ warned = FALSE
    /\ ids = <<>>
    /\ tasks = <<>>
    /\ mainpc = "idle"
    /\ cur = 0
    /\ cancelIdx = 0
    /\ completed = <<>>
    /\ outcome = NoOutcome
    /\ prev = [same |-> FALSE, ids |-> <<>>]
    /\ fin = [i \in CatalogIds |-> [any |-> FALSE, ok |-> FALSE]]

FunIdle == ob = IdleOb /\ dp = IdleDp /\ raw = IdleRaw /\ ds = IdleDs

\* the tables of the download runs: NumIds rows, one per identifier, every
\* date known
MainTables == {t \in Tables : /\ Len(t) = NumIds
                              /\ \A i \in 1..Len(t) : t[i].Deployment_date = 0
                              /\ \A i, j \in 1..Len(t) : t[i].ID = t[j].ID => i = j}

Init == df \in MainTables /\ MainIdle /\ FunIdle

Futures == 1..Len(tasks)

Next ==
    \/ Download
    \/ \E t \in Futures : Start(t)
    \/ \E t \in Futures : SkipPresent(t)
    \/ \E t \in Futures : CheckAbsent(t)
    \/ \E t \in Futures : UrlopenFail(t)
    \/ \E t \in Futures : OpenFile(t)
    \/ \E t \in Futures : WriteBlock(t)
    \/ \E t \in Futures : WriteFail(t)
    \/ CollectFail
    \/ CancelNext
    \/ CancelDone
    \/ Raise
    \/ Return

Spec == Init /\ [][Next]_vars

InitOrder == df \in Tables /\ MainIdle /\ FunIdle

NextOrder == OrderByDate \/ OrderByDateAll

SpecOrder == InitOrder /\ [][NextOrder]_vars

InitDrogue == df = <<>> /\ MainIdle /\ FunIdle

NextDrogue == DroguePresence

SpecDrogue == InitDrogue /\ [][NextDrogue]_vars

InitPre == df = <<>> /\ MainIdle /\ ob = IdleOb /\ dp = IdleDp /\ raw \in RawFiles /\ ds = IdleDs

NextPre == Preprocess

SpecPre == InitPre /\ [][NextPre]_vars

----------------------------------------------------------------------------
(* Properties *)

AllTrue(b) == \A i \in 1..Len(b) : b[i]

AllFalse(b) == \A i \in 1..Len(b) : ~b[i]

Last(s) == s[Len(s)]

\* C1: preprocess on a raw file with 3 observations, a drogue-loss time equal
\* to the time of the 2nd observation and the ManufactureVoltage attribute
\* "56 V" yields ManufactureVoltage 56, drogue_status [true, false, false]
\* and ids of length 3 whose every entry is the buoy's identifier.
C1_EndToEnd ==
    (/\ ds.loaded
     /\ Len(raw.time) = 3
     /\ raw.drogue_lost_date = raw.time[2]
     /\ raw.ManufactureVoltage = <<"5", "6", " ", "V">>)
    => /\ ds.ManufactureVoltage = 56
       /\ ds.drogue_status = <<TRUE, FALSE, FALSE>>
       /\ ds.ids = <<raw.ID, raw.ID, raw.ID>>

\* C2 as stated: for a non-empty ascending time and a drogue-loss time L,
\* drogue_presence is all true if L is unknown, all false if L = time[0],
\* and, if time[0] < L < time[-1], true exactly at the entries before L.
C2_Original ==
    dp.called =>
        /\ dp.lost_time = NaT => AllTrue(dp.out)
        /\ (dp.lost_time /= NaT /\ dp.lost_time = dp.time[1]) => AllFalse(dp.out)
        /\ (dp.lost_time /= NaT /\ dp.time[1] < dp.lost_time /\ dp.lost_time < Last(dp.time))
           => /\ Len(dp.out) = Len(dp.time)
              /\ \A i \in 1..Len(dp.time) : dp.out[i] <=> (dp.time[i] < dp.lost_time)

\* C2 as amended: all true if L is unknown; if L = time[0], all false when
\* time[0] < time[-1] and all true when time[0] = time[-1]; if
\* time[0] < L < time[-1], true exactly at the entries before L.
C2_Amended ==
    dp.called =>
        /\ Len(dp.out) = Len(dp.time)
        /\ dp.lost_time = NaT => AllTrue(dp.out)
        /\ (dp.lost_time /= NaT /\ dp.lost_time = dp.time[1] /\ dp.time[1] < Last(dp.time))
           => AllFalse(dp.out)
        /\ (dp.lost_time /= NaT /\ dp.lost_time = dp.time[1] /\ dp.time[1] = Last(dp.time))
           => AllTrue(dp.out)
        /\ (dp.lost_time /= NaT /\ dp.time[1] < dp.lost_time /\ dp.lost_time < Last(dp.time))
           => \A i \in 1..Len(dp.time) : dp.out[i] <=> (dp.time[i] < dp.lost_time)

C2_Witness ==
    /\ dp.called
    /\ Len(dp.time) = 3
    /\ dp.lost_time = dp.time[1]
    /\ dp.time[1] < Last(dp.time)
    /\ AllFalse(dp.out)

AllKnown(a) == Range(Candidates(a)) \subseteq CatalogIds

Ended == mainpc = "idle" /\ calls > 0

\* C5: a download call with n_random_id larger than the number of candidate
\* identifiers (all of them listed on the server) fetches every candidate,
\* emits the warning and does not raise.
C5_Oversize ==
    (Ended /\ Oversize(args) /\ AllKnown(args))
    => /\ warned
       /\ outcome.kind = "returned"
       /\ ids = Candidates(args)
       /\ Len(tasks) = Len(ids)
       /\ \A t \in 1..Len(tasks) : tasks[t].id = ids[t] /\ tasks[t].st = "done"

C7_Atomic ==
    \A t \in 1..Len(tasks) : ~tasks[t].hitPartial /\ ~tasks[t].overwrote

\* C8: when a fetch of a download call fails, the error reaches the caller,
\* the fetches of the other identifiers are carried out, and the file of the
\* failed fetch is absent or whole.
C8_Isolation ==
    (Ended /\ \E t \in 1..Len(tasks) : tasks[t].st = "failed")
    => /\ outcome.kind = "URLError"
       /\ \A t \in 1..Len(tasks) : tasks[t].st /= "cancelled"
       /\ \A t \in 1..Len(tasks) :
            tasks[t].st = "failed" => (~isfile(tasks[t].id) \/ cache[tasks[t].id].data = Complete)

\* C9: no destination path is written by more than one worker of a call,
\* also when the list names an identifier more than once.
C9_OwnPath ==
    \A t, u \in 1..Len(tasks) :
        (t /= u /\ tasks[t].id = tasks[u].id) => ~(tasks[t].opened /\ tasks[u].opened)

IsStrictlyAscending(s) == \A i \in 1..(Len(s) - 1) : s[i] < s[i + 1]

\* C10: a download call with n_random_id given and smaller than the number
\* of candidates (0 included) fetches exactly n_random_id distinct
\* identifiers of the candidates, in ascending order, and the same ones as
\* a call before with the same arguments.
C10_Sample ==
    (/\ calls > 0
     /\ AllKnown(args)
     /\ args.n_random_id /= NoneN
     /\ args.n_random_id < Len(Candidates(args)))
    => /\ Len(ids) = args.n_random_id
       /\ Range(ids) \subseteq Range(Candidates(args))
       /\ IsStrictlyAscending(ids)
       /\ outcome.kind /= "KeyError"
       /\ prev.same => prev.ids = ids

============================================================================
